---- MODULE Spec2Model ----
(***************************************************************************)
(* Career Referee: the comparison pipeline of src/referee_agent.py and the *)
(* record types of src/models.py.                                          *)
(*                                                                         *)
(* Text is a sequence of characters (one-character strings).  A Python     *)
(* value is a record [t |-> type tag, v |-> payload]; a raised exception   *)
(* is the value [t |-> "raise", v |-> [type, kind, where, names]].         *)
(***************************************************************************)
EXTENDS Integers, Sequences, FiniteSets, TLC

VARIABLES
    call,       \* the operation under way: [op |-> name, arg |-> its arguments]
    ret,        \* what the operation returned or raised; Pending until then
    pc,         \* position inside run_referee
    env,        \* REQUESTS_AVAILABLE, OPENAI_AVAILABLE, OPENAI_API_KEY
    provider_idx, \* index of the for loop of run_referee over providers
    model_idx,  \* index of the for loop of _call_ollama_api over models
    attempt,    \* loop variable of _call_openai_api
    log,        \* history: the external requests sent and sleeps taken, in order
    probe,      \* history: what the reachability probe answered
    source,     \* history: the provider response the returned result was parsed from
    norm_arg,   \* history: the argument _standardize_salary_format was called with
    rejected,   \* history: a response with an off-tier salary was received
    caught,     \* history: the exceptions the except clause of run_referee caught
    session,    \* st.session_state: a function from the keys present to values
    screen,     \* what the last script run rendered: [page, errors]
    submitted   \* history: the form as it was submitted in the last script run

vars == <<call, ret, pc, env, provider_idx, model_idx, attempt, log, probe,
          source, norm_arg, rejected, caught, session, screen, submitted>>

\* the state of the Streamlit application
AppVars == <<session, screen, submitted>>

(***************************************************************************)
(* Bounds of the model.                                                    *)
(***************************************************************************)
\* longest pros / cons / decision_guide list a payload carries
MaxList == 4
\* largest salary figure tried, in thousands
MaxThousands == 165

(***************************************************************************)
(* Characters and strings.                                                 *)
(***************************************************************************)
UpperCase == <<"A","B","C","D","E","F","G","H","I","J","K","L","M",
               "N","O","P","Q","R","S","T","U","V","W","X","Y","Z">>
LowerCase == <<"a","b","c","d","e","f","g","h","i","j","k","l","m",
               "n","o","p","q","r","s","t","u","v","w","x","y","z">>
Digits == <<"0","1","2","3","4","5","6","7","8","9">>
Whitespace == {" ", "\n", "\t"}

Range(f) == {f[i] : i \in DOMAIN f}

\* str.lower(), one character
LowerChar(c) ==
    IF \E i \in 1..26 : UpperCase[i] = c
    THEN LowerCase[CHOOSE i \in 1..26 : UpperCase[i] = c]
    ELSE c

\* str.lower()
Lower(s) == [i \in 1..Len(s) |-> LowerChar(s[i])]

\* s[n:]
Drop(s, n) == IF n >= Len(s) THEN <<>> ELSE SubSeq(s, n + 1, Len(s))

\* s[:-n], for n <= len(s)
DropLast(s, n) == IF n >= Len(s) THEN <<>> ELSE SubSeq(s, 1, Len(s) - n)

\* str.strip()
Strip(s) ==
    LET keep == {i \in 1..Len(s) : s[i] \notin Whitespace}
    IN  IF keep = {} THEN <<>>
        ELSE LET lo == CHOOSE i \in keep : \A j \in 1..(i - 1) : j \notin keep
                 hi == CHOOSE i \in keep : \A j \in (i + 1)..Len(s) : j \notin keep
             IN  SubSeq(s, lo, hi)

\* str.startswith(p)
StartsWith(s, p) == Len(p) <= Len(s) /\ SubSeq(s, 1, Len(p)) = p

\* str.endswith(p)
EndsWith(s, p) ==
    Len(p) <= Len(s) /\ SubSeq(s, Len(s) - Len(p) + 1, Len(s)) = p

\* p in s
Contains(s, p) ==
    \E i \in 1..(Len(s) + 1) :
        i + Len(p) - 1 <= Len(s) /\ SubSeq(s, i, i + Len(p) - 1) = p

(***************************************************************************)
(* Python values.                                                          *)
(***************************************************************************)
PyStr(s) == [t |-> "str", v |-> s]
PyList(l) == [t |-> "list", v |-> l]
PyDict(d) == [t |-> "dict", v |-> d]
PyInt(n) == [t |-> "int", v |-> n]
PyNone == [t |-> "none", v |-> <<>>]
Pending == [t |-> "pending", v |-> <<>>]

Raise(type, kind, where, names) ==
    [t |-> "raise",
     v |-> [type |-> type, kind |-> kind, where |-> where, names |-> names]]

IsRaise(x) == x.t = "raise"

\* bool(x) of a str, list, int or None
Truthy(x) ==
    CASE x.t = "none" -> FALSE
      [] x.t = "int" -> x.v # 0
      [] x.t \in {"str", "list"} -> Len(x.v) > 0
      [] x.t = "dict" -> DOMAIN x.v # {}
      [] OTHER -> TRUE

(***************************************************************************)
(* src/models.py                                                           *)
(***************************************************************************)
CareerFields == <<"overview", "skills", "salary", "time_to_enter", "pros", "cons">>
TopFields == <<"career_a", "career_b", "decision_guide">>

\* a wrong bound: accepts any list of at least 3 items
CareerInfo_post_init_AtLeast3(self) ==
    IF ~(self.v.pros.t = "list") \/ Len(self.v.pros.v) < 3
    THEN Raise("ValueError", "pros_len", "CareerInfo", <<>>)
    ELSE IF ~(self.v.cons.t = "list") \/ Len(self.v.cons.v) < 3
    THEN Raise("ValueError", "cons_len", "CareerInfo", <<>>)
    ELSE PyNone

\* CareerInfo.__post_init__
CareerInfo_post_init(self) ==
    IF ~(self.v.pros.t = "list") \/ Len(self.v.pros.v) # 3
    THEN Raise("ValueError", "pros_len", "CareerInfo", <<>>)
    ELSE IF ~(self.v.cons.t = "list") \/ Len(self.v.cons.v) # 3
    THEN Raise("ValueError", "cons_len", "CareerInfo", <<>>)
    ELSE PyNone

\* CareerInfo(overview=..., skills=..., salary=..., time_to_enter=..., pros=..., cons=...)
CareerInfo(overview, skills, salary, time_to_enter, pros, cons) ==
    LET self == [t |-> "CareerInfo",
                 v |-> [overview |-> overview, skills |-> skills,
                        salary |-> salary, time_to_enter |-> time_to_enter,
                        pros |-> pros, cons |-> cons]]
        e == CareerInfo_post_init(self)
    IN  IF IsRaise(e) THEN e ELSE self

\* ComparisonResult.__post_init__
ComparisonResult_post_init(self) ==
    IF ~(self.v.decision_guide.t = "list") \/ Len(self.v.decision_guide.v) < 2
    THEN Raise("ValueError", "decision_guide_len", "ComparisonResult", <<>>)
    ELSE PyNone

\* ComparisonResult(career_a=..., career_b=..., decision_guide=...); an argument
\* that raised while it was evaluated propagates
ComparisonResult(career_a, career_b, decision_guide) ==
    IF IsRaise(career_a) THEN career_a
    ELSE IF IsRaise(career_b) THEN career_b
    ELSE LET self == [t |-> "ComparisonResult",
                      v |-> [career_a |-> career_a, career_b |-> career_b,
                             decision_guide |-> decision_guide]]
             e == ComparisonResult_post_init(self)
         IN  IF IsRaise(e) THEN e ELSE self

\* CareerInfo called with the dict as keyword arguments: the keyword arguments must be exactly the six fields
CareerInfoFromKwargs(d) ==
    IF d.t # "dict" \/ DOMAIN d.v # Range(CareerFields)
    THEN Raise("TypeError", "kwargs", "CareerInfo", <<>>)
    ELSE CareerInfo(d.v.overview, d.v.skills, d.v.salary, d.v.time_to_enter,
                    d.v.pros, d.v.cons)

\* ComparisonResult.from_dict
from_dict(data) ==
    IF ~(Range(TopFields) \subseteq DOMAIN data.v)
    THEN Raise("KeyError", "key", "from_dict", <<>>)
    ELSE LET a == CareerInfoFromKwargs(data.v.career_a)
         IN  IF IsRaise(a) THEN a
             ELSE ComparisonResult(a, CareerInfoFromKwargs(data.v.career_b),
                                   data.v.decision_guide)

\* the inner dict to_dict writes for one career; reading a field of a value
\* that is no CareerInfo raises
CareerAsDict(c) ==
    IF c.t # "CareerInfo"
    THEN Raise("AttributeError", "overview", "to_dict", <<>>)
    ELSE PyDict([overview |-> c.v.overview, skills |-> c.v.skills,
                 salary |-> c.v.salary, time_to_enter |-> c.v.time_to_enter,
                 pros |-> c.v.pros, cons |-> c.v.cons])

\* a slip: the two careers are written under each other's key
to_dict_Swapped(self) ==
    LET a == CareerAsDict(self.v.career_a)
        b == CareerAsDict(self.v.career_b)
    IN  IF IsRaise(a) THEN a
        ELSE IF IsRaise(b) THEN b
        ELSE PyDict([career_a |-> b, career_b |-> a,
                     decision_guide |-> self.v.decision_guide])

\* ComparisonResult.to_dict
to_dict(self) ==
    LET a == CareerAsDict(self.v.career_a)
        b == CareerAsDict(self.v.career_b)
    IN  IF IsRaise(a) THEN a
        ELSE IF IsRaise(b) THEN b
        ELSE PyDict([career_a |-> a, career_b |-> b,
                     decision_guide |-> self.v.decision_guide])

(***************************************************************************)
(* src/referee_agent.py: the mock provider                                 *)
(***************************************************************************)
Txt(words) == PyStr(words)
Three(x, y, z) == PyList(<<PyStr(<<x>>), PyStr(<<y>>), PyStr(<<z>>)>>)

\* a slip: the two career names are interpolated the other way round
MockSwapped(career_a, career_b) ==
    ComparisonResult(
        CareerInfo(
            Txt(career_b \o <<" involves specialized skills and offers various career paths. This field typically requires dedicated learning and practice.">>),
            Txt(<<"Core skills for ">> \o career_b \o <<" include problem-solving, communication, and domain-specific technical abilities.">>),
            Txt(<<"m","e","d","i","u","m">>),
            Txt(<<"2-4 years">>),
            Three("Growing field", "Good opportunities", "Skill development"),
            Three("Learning curve", "Competition", "Constant updates")),
        CareerInfo(
            Txt(career_a \o <<" offers unique opportunities and challenges. This career path has its own requirements and growth potential.">>),
            Txt(<<"Essential skills for ">> \o career_a \o <<" include analytical thinking, creativity, and relevant technical knowledge.">>),
            Txt(<<"m","e","d","i","u","m">>),
            Txt(<<"2-4 years">>),
            Three("Diverse opportunities", "Creative work", "Professional growth"),
            Three("Market variability", "Skill requirements", "Time investment")),
        PyList(<<
            Txt(<<"Choose ">> \o career_b \o <<" if you prefer structured problem-solving and technical challenges">>),
            Txt(<<"Choose ">> \o career_a \o <<" if you value creativity and diverse project opportunities">>)>>))

\* a slip: the first career is given two pros only
MockTwoPros(career_a, career_b) ==
    ComparisonResult(
        CareerInfo(
            Txt(career_a \o <<" involves specialized skills and offers various career paths. This field typically requires dedicated learning and practice.">>),
            Txt(<<"Core skills for ">> \o career_a \o <<" include problem-solving, communication, and domain-specific technical abilities.">>),
            Txt(<<"m","e","d","i","u","m">>),
            Txt(<<"2-4 years">>),
            PyList(<<PyStr(<<"Growing field">>), PyStr(<<"Good opportunities">>)>>),
            Three("Learning curve", "Competition", "Constant updates")),
        CareerInfo(
            Txt(career_b \o <<" offers unique opportunities and challenges. This career path has its own requirements and growth potential.">>),
            Txt(<<"Essential skills for ">> \o career_b \o <<" include analytical thinking, creativity, and relevant technical knowledge.">>),
            Txt(<<"m","e","d","i","u","m">>),
            Txt(<<"2-4 years">>),
            Three("Diverse opportunities", "Creative work", "Professional growth"),
            Three("Market variability", "Skill requirements", "Time investment")),
        PyList(<<
            Txt(<<"Choose ">> \o career_a \o <<" if you prefer structured problem-solving and technical challenges">>),
            Txt(<<"Choose ">> \o career_b \o <<" if you value creativity and diverse project opportunities">>)>>))

\* _get_mock_comparison
_get_mock_comparison(career_a, career_b) ==
    ComparisonResult(
        CareerInfo(
            Txt(career_a \o <<" involves specialized skills and offers various career paths. This field typically requires dedicated learning and practice.">>),
            Txt(<<"Core skills for ">> \o career_a \o <<" include problem-solving, communication, and domain-specific technical abilities.">>),
            Txt(<<"m","e","d","i","u","m">>),
            Txt(<<"2-4 years">>),
            Three("Growing field", "Good opportunities", "Skill development"),
            Three("Learning curve", "Competition", "Constant updates")),
        CareerInfo(
            Txt(career_b \o <<" offers unique opportunities and challenges. This career path has its own requirements and growth potential.">>),
            Txt(<<"Essential skills for ">> \o career_b \o <<" include analytical thinking, creativity, and relevant technical knowledge.">>),
            Txt(<<"m","e","d","i","u","m">>),
            Txt(<<"2-4 years">>),
            Three("Diverse opportunities", "Creative work", "Professional growth"),
            Three("Market variability", "Skill requirements", "Time investment")),
        PyList(<<
            Txt(<<"Choose ">> \o career_a \o <<" if you prefer structured problem-solving and technical challenges">>),
            Txt(<<"Choose ">> \o career_b \o <<" if you value creativity and diverse project opportunities">>)>>))

(***************************************************************************)
(* src/referee_agent.py: the response parser                               *)
(*                                                                         *)
(* A response is [text |-> characters, doc |-> Python value]: in text the  *)
(* single token JSON stands for the characters of one JSON document (it    *)
(* begins with a brace or bracket, never with a fence or a label), and doc *)
(* is the value json.loads decodes that document to.                       *)
(***************************************************************************)
JSON == "<json>"
\* the backquote character U+0060 (the lexer accepts none inside a string literal)
BQ == "U+0060"
FENCE == <<BQ, BQ, BQ>>
FENCE_JSON == <<BQ, BQ, BQ, "j", "s", "o", "n">>

\* json.loads: surrounding whitespace is allowed, anything else is a syntax error
json_loads(text, doc) ==
    IF Strip(text) = <<JSON>> THEN doc
    ELSE Raise("JSONDecodeError", "syntax", "json", <<>>)

\* a slip: the labelled fence is cut like the bare one ([3:] for [7:])
StripFencesShortCut(response_text) ==
    LET c0 == Strip(response_text)
        c1 == IF StartsWith(c0, FENCE_JSON) THEN Drop(c0, 3)
              ELSE IF StartsWith(c0, FENCE) THEN Drop(c0, 3)
              ELSE c0
        c2 == IF EndsWith(c1, FENCE) THEN DropLast(c1, 3) ELSE c1
    IN  Strip(c2)

\* lines 241-252 of _parse_ai_response: the cleaned response
StripFences(response_text) ==
    LET c0 == Strip(response_text)
        c1 == IF StartsWith(c0, FENCE_JSON) THEN Drop(c0, 7)
              ELSE IF StartsWith(c0, FENCE) THEN Drop(c0, 3)
              ELSE c0
        c2 == IF EndsWith(c1, FENCE) THEN DropLast(c1, 3) ELSE c1
    IN  Strip(c2)

\* d.get(k, default)
Get(d, k, default) == IF k \in DOMAIN d.v THEN d.v[k] ELSE default

\* the keys of `required` that are not in the dict, in the order of `required`
Missing(required, d) == SelectSeq(required, LAMBDA k : k \notin DOMAIN d.v)

\* a gate that checks nothing
CheckSalaryAbsent(career_key, career_data) == PyNone

\* lines 282-285: the salary gate (.lower() of a non-string is an AttributeError)
CheckSalary(career_key, career_data) ==
    LET salary == Get(career_data, "salary", PyStr(<<>>))
    IN  IF salary.t # "str"
        THEN Raise("AttributeError", "lower", career_key, <<>>)
        ELSE IF Lower(salary.v) \notin
                    {<<"l","o","w">>, <<"m","e","d","i","u","m">>, <<"h","i","g","h">>}
        THEN Raise("ValueError", "salary_format", career_key, <<"salary">>)
        ELSE PyNone

\* lines 287-293, one list field
CheckList(career_key, career_data, list_field) ==
    LET field_value == Get(career_data, list_field, PyNone)
    IN  IF field_value.t # "list"
        THEN Raise("ValueError", "not_a_list", career_key, <<list_field>>)
        ELSE IF Len(field_value.v) # 3
        THEN Raise("ValueError", "list_len", career_key, <<list_field>>)
        ELSE PyNone

\* a check that reports nothing missing
CheckCareerFieldsAbsent(career_key, career_data) == PyNone

\* lines 277-280: the six per-career keys
CheckCareerFields(career_key, career_data) ==
    LET missing_career_fields == Missing(CareerFields, career_data)
    IN  IF missing_career_fields # <<>>
        THEN Raise("ValueError", "missing_fields", career_key, missing_career_fields)
        ELSE PyNone

\* lines 271-293: one iteration of the loop over career_a, career_b
ValidateCareer(data, career_key) ==
    LET career_data == Get(data, career_key, Raise("KeyError", "key", career_key, <<>>))
    IN  IF IsRaise(career_data) THEN career_data
        ELSE IF career_data.t # "dict"
        THEN Raise("ValueError", "not_an_object", career_key, <<>>)
        ELSE LET e1 == CheckCareerFields(career_key, career_data)
             IN  IF IsRaise(e1) THEN e1
        ELSE LET e2 == CheckSalary(career_key, career_data)
             IN  IF IsRaise(e2) THEN e2
        ELSE LET e3 == CheckList(career_key, career_data, "pros")
             IN  IF IsRaise(e3) THEN e3
        ELSE CheckList(career_key, career_data, "cons")

\* lines 264-268: the three top-level keys
CheckTopFields(data) ==
    LET missing_fields == Missing(TopFields, data)
    IN  IF missing_fields # <<>>
        THEN Raise("ValueError", "missing_fields", "top", missing_fields)
        ELSE PyNone

\* lines 295-300
CheckDecisionGuide(data) ==
    LET decision_guide == Get(data, "decision_guide", PyNone)
    IN  IF decision_guide.t # "list"
        THEN Raise("ValueError", "not_a_list", "top", <<"decision_guide">>)
        ELSE IF Len(decision_guide.v) < 2
        THEN Raise("ValueError", "list_len", "top", <<"decision_guide">>)
        ELSE PyNone

\* lines 305-310: a ValueError is re-raised as it is, any other exception as a
\* ValueError("Unexpected error parsing response")
AsValueError(x) ==
    IF IsRaise(x) /\ x.v.type # "ValueError"
    THEN Raise("ValueError", "unexpected", x.v.where, <<>>)
    ELSE x

\* _parse_ai_response
_parse_ai_response(response) ==
    IF response.text = <<>> \/ Strip(response.text) = <<>>
    THEN Raise("ValueError", "empty", "response", <<>>)
    ELSE LET data == json_loads(StripFences(response.text), response.doc)
         IN  IF IsRaise(data)
             THEN Raise("ValueError", "invalid_json", "response", <<>>)
             ELSE IF data.t # "dict"
             THEN Raise("ValueError", "not_an_object", "top", <<>>)
             ELSE LET e0 == CheckTopFields(data)
                  IN  IF IsRaise(e0) THEN e0
             ELSE LET ea == ValidateCareer(data, "career_a")
                  IN  IF IsRaise(ea) THEN AsValueError(ea)
             ELSE LET eb == ValidateCareer(data, "career_b")
                  IN  IF IsRaise(eb) THEN AsValueError(eb)
             ELSE LET eg == CheckDecisionGuide(data)
                  IN  IF IsRaise(eg) THEN eg
             ELSE AsValueError(from_dict(data))

(***************************************************************************)
(* Regular expressions, as re.search evaluates them: a pattern is run from *)
(* every start position at once, and each construct maps the set of        *)
(* positions reached so far to the set reached after it.  A position p     *)
(* stands before character p; Len(s) + 1 is the end of the string.         *)
(***************************************************************************)
WordChars == Range(LowerCase) \cup Range(UpperCase) \cup Range(Digits) \cup {"_"}

\* the digit class [a-b]
D(a, b) == {Digits[i + 1] : i \in a..b}

ReAll(s) == 1..(Len(s) + 1)

WordAt(s, i) == i \in 1..Len(s) /\ s[i] \in WordChars

\* \b
ReBnd(s, P) == {p \in P : WordAt(s, p - 1) # WordAt(s, p)}

\* one character of the class C
ReCls(s, P, C) == {p + 1 : p \in {q \in P : q <= Len(s) /\ s[q] \in C}}

\* C?
ReOpt(s, P, C) == P \cup ReCls(s, P, C)

\* C*
ReStar(s, P, C) ==
    {q \in ReAll(s) : \E p \in P : p <= q /\ \A x \in p..(q - 1) : s[x] \in C}

\* C+
RePlus(s, P, C) == ReStar(s, ReCls(s, P, C), C)

\* the literal w
ReLit(s, P, w) ==
    {p + Len(w) : p \in {q \in P : q + Len(w) - 1 <= Len(s)
                                   /\ SubSeq(s, q, q + Len(w) - 1) = w}}

\* (w1|w2|...)
ReAlt(s, P, W) == UNION {ReLit(s, P, w) : w \in W}

(***************************************************************************)
(* src/referee_agent.py: the salary normalizer                             *)
(***************************************************************************)
Tier_low == <<"l","o","w">>
Tier_medium == <<"m","e","d","i","u","m">>
Tier_high == <<"h","i","g","h">>
Tiers == {Tier_low, Tier_medium, Tier_high}

LowWords ==
    {<<"l","o","w">>,
     <<"p","o","o","r">>,
     <<"m","i","n","i","m","a","l">>,
     <<"e","n","t","r","y">>,
     <<"j","u","n","i","o","r">>,
     <<"s","t","a","r","t","i","n","g">>,
     <<"b","e","l","o","w">>,
     <<"u","n","d","e","r">>}
HighWords ==
    {<<"h","i","g","h">>,
     <<"e","x","c","e","l","l","e","n","t">>,
     <<"p","r","e","m","i","u","m">>,
     <<"s","e","n","i","o","r">>,
     <<"e","x","e","c","u","t","i","v","e">>,
     <<"a","b","o","v","e">>,
     <<"o","v","e","r">>,
     <<"t","o","p">>}
MediumWords ==
    {<<"m","e","d","i","u","m">>,
     <<"a","v","e","r","a","g","e">>,
     <<"m","o","d","e","r","a","t","e">>,
     <<"m","i","d">>,
     <<"m","i","d","d","l","e">>,
     <<"f","a","i","r">>,
     <<"d","e","c","e","n","t">>,
     <<"c","o","m","p","e","t","i","t","i","v","e">>}

\* r'\b(low|poor|minimal|entry|junior|starting|below|under)\b'
Low1(s) == ReBnd(s, ReAlt(s, ReBnd(s, ReAll(s)), LowWords)) # {}

\* r'\$?[0-9,]+\s*-?\s*\$?[0-5][0-9],?000'
Low2(s) ==
    LET p1 == ReOpt(s, ReAll(s), {"$"})
        p2 == RePlus(s, p1, D(0, 9) \cup {","})
        p3 == ReStar(s, p2, Whitespace)
        p4 == ReOpt(s, p3, {"-"})
        p5 == ReStar(s, p4, Whitespace)
        p6 == ReOpt(s, p5, {"$"})
        p7 == ReCls(s, ReCls(s, p6, D(0, 5)), D(0, 9))
        p8 == ReOpt(s, p7, {","})
    IN  ReLit(s, p8, <<"0","0","0">>) # {}

\* r'\b[0-5][0-9]k?\b'
Low3(s) ==
    ReBnd(s, ReOpt(s, ReCls(s, ReCls(s, ReBnd(s, ReAll(s)), D(0, 5)), D(0, 9)),
                   {"k"})) # {}

\* r'\b(high|excellent|premium|senior|executive|above|over|top)\b'
High1(s) == ReBnd(s, ReAlt(s, ReBnd(s, ReAll(s)), HighWords)) # {}

\* r'\$?[1-9][0-9][0-9],?000'
High2(s) ==
    LET p1 == ReOpt(s, ReAll(s), {"$"})
        p2 == ReCls(s, ReCls(s, ReCls(s, p1, D(1, 9)), D(0, 9)), D(0, 9))
    IN  ReLit(s, ReOpt(s, p2, {","}), <<"0","0","0">>) # {}

\* r'\b[1-9][0-9][0-9]k?\b'
High3(s) ==
    LET p1 == ReCls(s, ReCls(s, ReCls(s, ReBnd(s, ReAll(s)), D(1, 9)), D(0, 9)),
                    D(0, 9))
    IN  ReBnd(s, ReOpt(s, p1, {"k"})) # {}

\* r'[8-9][0-9],?000'
High4(s) ==
    LET p1 == ReCls(s, ReCls(s, ReAll(s), D(8, 9)), D(0, 9))
    IN  ReLit(s, ReOpt(s, p1, {","}), <<"0","0","0">>) # {}

\* r'\b[8-9][0-9]k\b'
High5(s) ==
    ReBnd(s, ReCls(s, ReCls(s, ReCls(s, ReBnd(s, ReAll(s)), D(8, 9)), D(0, 9)),
                   {"k"})) # {}

\* r'\b(medium|average|moderate|mid|middle|fair|decent|competitive)\b'
Medium1(s) == ReBnd(s, ReAlt(s, ReBnd(s, ReAll(s)), MediumWords)) # {}

\* r'\$?[6-9][0-9],?000'
Medium2(s) ==
    LET p1 == ReOpt(s, ReAll(s), {"$"})
        p2 == ReCls(s, ReCls(s, p1, D(6, 9)), D(0, 9))
    IN  ReLit(s, ReOpt(s, p2, {","}), <<"0","0","0">>) # {}

\* r'\b[6-9][0-9]k?\b'
Medium3(s) ==
    ReBnd(s, ReOpt(s, ReCls(s, ReCls(s, ReBnd(s, ReAll(s)), D(6, 9)), D(0, 9)),
                   {"k"})) # {}

low_patterns(s) == Low1(s) \/ Low2(s) \/ Low3(s)
high_patterns(s) == High1(s) \/ High2(s) \/ High3(s) \/ High4(s) \/ High5(s)
medium_patterns(s) == Medium1(s) \/ Medium2(s) \/ Medium3(s)

\* a slip: a direct match returns the string as it came (return salary_str)
standardize_salary_AsGiven(salary_str) ==
    IF ~Truthy(salary_str) THEN PyStr(Tier_medium)
    ELSE IF salary_str.t # "str"
    THEN Raise("AttributeError", "lower", "standardize_salary", <<>>)
    ELSE LET salary_lower == Strip(Lower(salary_str.v))
         IN  IF salary_lower \in Tiers THEN salary_str
             ELSE IF low_patterns(salary_lower) THEN PyStr(Tier_low)
             ELSE IF high_patterns(salary_lower) THEN PyStr(Tier_high)
             ELSE IF medium_patterns(salary_lower) THEN PyStr(Tier_medium)
             ELSE PyStr(Tier_medium)

\* a slip: the high group is tried before the low group
standardize_salary_HighFirst(salary_str) ==
    IF ~Truthy(salary_str) THEN PyStr(Tier_medium)
    ELSE IF salary_str.t # "str"
    THEN Raise("AttributeError", "lower", "standardize_salary", <<>>)
    ELSE LET salary_lower == Strip(Lower(salary_str.v))
         IN  IF salary_lower \in Tiers THEN PyStr(salary_lower)
             ELSE IF high_patterns(salary_lower) THEN PyStr(Tier_high)
             ELSE IF low_patterns(salary_lower) THEN PyStr(Tier_low)
             ELSE IF medium_patterns(salary_lower) THEN PyStr(Tier_medium)
             ELSE PyStr(Tier_medium)

\* standardize_salary, the inner function of _standardize_salary_format
standardize_salary(salary_str) ==
    IF ~Truthy(salary_str) THEN PyStr(Tier_medium)
    ELSE IF salary_str.t # "str"
    THEN Raise("AttributeError", "lower", "standardize_salary", <<>>)
    ELSE LET salary_lower == Strip(Lower(salary_str.v))
         IN  IF salary_lower \in Tiers THEN PyStr(salary_lower)
             ELSE IF low_patterns(salary_lower) THEN PyStr(Tier_low)
             ELSE IF high_patterns(salary_lower) THEN PyStr(Tier_high)
             ELSE IF medium_patterns(salary_lower) THEN PyStr(Tier_medium)
             ELSE PyStr(Tier_medium)

\* a slip: pros and cons change places
StandardizedCareer_ListsSwapped(c) ==
    LET salary == standardize_salary(c.v.salary)
    IN  IF IsRaise(salary) THEN salary
        ELSE CareerInfo(c.v.overview, c.v.skills, salary, c.v.time_to_enter,
                        c.v.cons, c.v.pros)

\* one standardized career of _standardize_salary_format (lines 372-388); a raise
\* inside standardize_salary propagates
StandardizedCareer(c) ==
    LET salary == standardize_salary(c.v.salary)
    IN  IF IsRaise(salary) THEN salary
        ELSE CareerInfo(c.v.overview, c.v.skills, salary, c.v.time_to_enter,
                        c.v.pros, c.v.cons)

\* _standardize_salary_format
_standardize_salary_format(result) ==
    ComparisonResult(StandardizedCareer(result.v.career_a),
                     StandardizedCareer(result.v.career_b),
                     result.v.decision_guide)

(***************************************************************************)
(* The inputs the operations are exercised on.                             *)
(***************************************************************************)
\* a list of n strings
Items(n) == PyList([i \in 1..n |-> PyStr(<<"item">>)])

\* salary values a provider may write: the tiers in several spellings, free text,
\* figures, padded text, the empty string and values that are no string
SalaryValues ==
    {PyStr(Tier_low), PyStr(Tier_medium), PyStr(Tier_high),
     PyStr(<<"H","i","g","h">>), PyStr(<<"H","I","G","H">>), PyStr(<<"L","o","w">>),
     PyStr(<<"$","8","5",",","0","0","0">>),
     PyStr(<<"a","b","o","v","e"," ","a","v","e","r","a","g","e">>),
     PyStr(<<" ","h","i","g","h">>), PyStr(<<>>), PyInt(85000), PyNone}

\* the list values tried for pros, cons and decision_guide: lists of 0..MaxList
\* items, a 3-character string and null
ListValues == {Items(n) : n \in 0..MaxList} \cup {PyStr(<<"a","b","c">>), PyNone}

CareerDoc(name, salary, pros, cons) ==
    PyDict([overview |-> PyStr(<<"overview of ", name>>),
            skills |-> PyStr(<<"skills of ", name>>),
            salary |-> salary,
            time_to_enter |-> PyStr(<<"1 year">>),
            pros |-> pros, cons |-> cons])

Doc(career_a, career_b, decision_guide) ==
    PyDict([career_a |-> career_a, career_b |-> career_b,
            decision_guide |-> decision_guide])

\* the dict d without key k
Without(d, k) == PyDict([x \in (DOMAIN d.v) \ {k} |-> d.v[x]])

\* the dict d with d[k] = x
With(d, k, x) ==
    PyDict([y \in (DOMAIN d.v) \cup {k} |-> IF y = k THEN x ELSE d.v[y]])

GoodCareer(name) == CareerDoc(name, PyStr(<<"H","i","g","h">>), Items(3), Items(3))
GoodDoc == Doc(GoodCareer("a"), GoodCareer("b"), Items(2))

\* payloads that differ from a well-formed one in the two salaries
SalaryDocs ==
    {Doc(CareerDoc("a", sa, Items(3), Items(3)),
         CareerDoc("b", sb, Items(3), Items(3)), Items(2)) :
        sa \in SalaryValues, sb \in SalaryValues}

\* a well-formed payload with one required key left out
OmitTop(k) == Without(GoodDoc, k)
OmitCareer(career_key, k) ==
    With(GoodDoc, career_key, Without(GoodDoc.v[career_key], k))
OmissionDocs ==
    {OmitTop(k) : k \in Range(TopFields)}
    \cup {OmitCareer(c, k) : c \in {"career_a", "career_b"}, k \in Range(CareerFields)}

\* payloads that differ from a well-formed one in one list
ListDocs ==
    {With(GoodDoc, c, With(GoodDoc.v[c], f, l)) :
        c \in {"career_a", "career_b"}, f \in {"pros", "cons"}, l \in ListValues}
    \cup {With(GoodDoc, "decision_guide", l) : l \in ListValues}

\* payloads of the wrong type, or with a key too many
OddDocs ==
    {Items(3), PyStr(<<"x">>), PyNone,
     With(GoodDoc, "career_a", Items(3)), With(GoodDoc, "career_b", PyNone),
     With(GoodDoc, "note", PyStr(<<"x">>)),
     With(GoodDoc, "career_b", With(GoodDoc.v.career_b, "note", PyStr(<<"x">>)))}

Docs == SalaryDocs \cup OmissionDocs \cup ListDocs \cup OddDocs

\* the ways a model wraps its JSON document
Plain == <<JSON>>
JsonFenced == FENCE_JSON \o <<"\n", JSON, "\n">> \o FENCE
BareFenced == FENCE \o <<"\n", JSON, "\n">> \o FENCE
\* a fence labelled with `label`
LabelFenced(label) == FENCE \o label \o <<"\n", JSON, "\n">> \o FENCE
\* the labels tried: json, JSON, js, python
Labels == {<<"j","s","o","n">>, <<"J","S","O","N">>, <<"j","s">>,
           <<"p","y","t","h","o","n">>}
Wrappers ==
    {Plain, BareFenced, <<" ", "\n">> \o JsonFenced \o <<"\n">>,
     FENCE_JSON \o <<JSON>> \o FENCE,
     FENCE \o BareFenced \o FENCE, FENCE \o JsonFenced \o FENCE,
     FENCE_JSON \o <<"\n", JSON>>, <<JSON, "\n">> \o FENCE,
     <<"H","e","r","e",":","\n">> \o JsonFenced}
    \cup {LabelFenced(l) : l \in Labels}

\* responses that carry no document
NoDocTexts == {<<>>, <<" ", "\n">>, <<"s","o","r","r","y">>, FENCE \o FENCE}

Responses ==
    {[text |-> w, doc |-> d] : w \in Wrappers, d \in Docs}
    \cup {[text |-> x, doc |-> PyNone] : x \in NoDocTexts}

\* n as decimal digits
RECURSIVE ToDigits(_)
ToDigits(n) ==
    IF n < 10 THEN <<Digits[n + 1]>>
    ELSE ToDigits(n \div 10) \o <<Digits[(n % 10) + 1]>>

\* a figure of k thousand, written as "$45,000", "120,000" or "45k"
Figure(fmt, k) ==
    CASE fmt = "$n,000" -> <<"$">> \o ToDigits(k) \o <<",","0","0","0">>
      [] fmt = "n,000" -> ToDigits(k) \o <<",","0","0","0">>
      [] fmt = "nk" -> ToDigits(k) \o <<"k">>
FigureFormats == {"$n,000", "n,000", "nk"}

\* salary descriptions in words, and no description at all
TextSalaries ==
    {PyNone,
     PyStr(<<>>),
     PyStr(<<" "," "," ">>),
     PyStr(<<" ","H","i","g","h"," ">>),
     PyStr(<<"L","O","W">>),
     PyStr(<<"M","e","d","i","u","m">>),
     PyStr(<<"e","n","t","r","y"," ","t","o"," ","s","e","n","i","o","r">>),
     PyStr(<<"a","b","o","v","e"," ","a","v","e","r","a","g","e">>),
     PyStr(<<"n","e","g","o","t","i","a","b","l","e">>),
     PyStr(<<"t","o","p"," ","5","0","k">>),
     PyStr(<<"f","a","i","r",","," ","u","n","d","e","r"," ","4","0","k">>),
     PyStr(<<"h","i","g","h","l","y"," ","p","a","i","d">>)}

\* the ComparisonResult objects the code can build from the payloads
Results == {r \in {from_dict(d) : d \in {x \in Docs : x.t = "dict"}} : ~IsRaise(r)}

CareerNames == {<<"N","u","r","s","e">>, <<"T","e","a","c","h","e","r">>, <<>>}

\* the ComparisonResult objects the mock provider builds
MockResults ==
    {x \in {_get_mock_comparison(a, b) : a, b \in CareerNames} : ~IsRaise(x)}

\* the ComparisonResult objects serialized and rebuilt: what the parser and the
\* mock provider build, before and after the salaries are standardized
Serialized ==
    LET built == Results \cup MockResults
    IN  built \cup {x \in {_standardize_salary_format(r) : r \in built} : ~IsRaise(x)}

\* calls of the pure functions, one function at a time
PureCalls ==
    {[op |-> "_parse_ai_response", arg |-> r] : r \in Responses}
    \cup {[op |-> "standardize_salary",
           arg |-> [fmt |-> f, k |-> k, salary_str |-> PyStr(Figure(f, k))]] :
            f \in FigureFormats, k \in 10..MaxThousands}
    \cup {[op |-> "standardize_salary",
           arg |-> [fmt |-> "text", k |-> 0, salary_str |-> t]] :
            t \in TextSalaries}
    \cup {[op |-> "CareerInfo", arg |-> [pros |-> p, cons |-> c]] :
            p \in ListValues, c \in ListValues}
    \cup {[op |-> "ComparisonResult", arg |-> l] : l \in ListValues}
    \cup {[op |-> "from_dict", arg |-> d] : d \in {x \in Docs : x.t = "dict"}}
    \cup {[op |-> "_get_mock_comparison", arg |-> <<a, b>>] :
            a \in CareerNames, b \in CareerNames}
    \cup {[op |-> "_standardize_salary_format", arg |-> r] : r \in Results}
    \cup {[op |-> "_standardize_salary_format", arg |-> r] : r \in MockResults}
    \cup {[op |-> "to_dict", arg |-> r] : r \in Serialized}

(***************************************************************************)
(* One call of a pure function.                                            *)
(***************************************************************************)
Idle ==
    /\ pc = "idle" /\ pc' = pc
    /\ UNCHANGED <<call, env, provider_idx, model_idx, attempt, log, probe,
                   source, norm_arg, rejected, caught>>
    /\ UNCHANGED AppVars

Do_parse_ai_response ==
    /\ call.op = "_parse_ai_response" /\ ret = Pending
    /\ ret' = _parse_ai_response(call.arg)
    /\ Idle

Do_standardize_salary ==
    /\ call.op = "standardize_salary" /\ ret = Pending
    /\ ret' = standardize_salary(call.arg.salary_str)
    /\ Idle

Do_CareerInfo ==
    /\ call.op = "CareerInfo" /\ ret = Pending
    /\ ret' = CareerInfo(PyStr(<<"o">>), PyStr(<<"s">>), PyStr(Tier_low),
                         PyStr(<<"t">>), call.arg.pros, call.arg.cons)
    /\ Idle

Do_ComparisonResult ==
    /\ call.op = "ComparisonResult" /\ ret = Pending
    /\ ret' = ComparisonResult(from_dict(GoodDoc).v.career_a,
                               from_dict(GoodDoc).v.career_b, call.arg)
    /\ Idle

Do_from_dict ==
    /\ call.op = "from_dict" /\ ret = Pending
    /\ ret' = from_dict(call.arg)
    /\ Idle

Do_get_mock_comparison ==
    /\ call.op = "_get_mock_comparison" /\ ret = Pending
    /\ ret' = _get_mock_comparison(call.arg[1], call.arg[2])
    /\ Idle

Do_standardize_salary_format ==
    /\ call.op = "_standardize_salary_format" /\ ret = Pending
    /\ ret' = _standardize_salary_format(call.arg)
    /\ Idle

\* r.to_dict() handed to ComparisonResult.from_dict
Do_to_dict ==
    /\ call.op = "to_dict" /\ ret = Pending
    /\ ret' = LET d == to_dict(call.arg)
              IN  IF IsRaise(d) THEN d ELSE from_dict(d)
    /\ Idle

NoResponse == [text |-> <<>>, doc |-> PyNone]

\* no session, nothing rendered, no form: the function is called on its own
NoForm == [user_name |-> PyNone, career_a |-> PyNone, career_b |-> PyNone]
EmptySession == [k \in {} |-> PyNone]
AppOff ==
    /\ session = EmptySession
    /\ screen = [page |-> "off", errors |-> {}]
    /\ submitted = NoForm

InitPure ==
    /\ call \in PureCalls
    /\ ret = Pending
    /\ pc = "idle"
    /\ env = [requests |-> FALSE, openai |-> FALSE, key |-> PyNone]
    /\ provider_idx = 1 /\ model_idx = 1 /\ attempt = 0
    /\ log = <<>> /\ probe = "none"
    /\ source = [provider |-> "none", response |-> NoResponse]
    /\ norm_arg = PyNone /\ rejected = FALSE /\ caught = <<>>
    /\ AppOff

(***************************************************************************)
(* src/referee_agent.py: run_referee and the two network adapters.         *)
(*                                                                         *)
(* A network request ends in one of: the call raises (connection refused,  *)
(* API error), it times out (which raises too), or an HTTP answer with a   *)
(* status and, for status 200, the text the backend generated.             *)
(***************************************************************************)
providers_OpenAIFirst == <<"openai", "ollama", "mock">>

\* a slip: the mock provider is missing from the list
providers_NoMock == <<"ollama", "openai">>

\* the list `providers` of run_referee
providers == <<"ollama", "openai", "mock">>

\* a slip: the last model is missing from the list
models_Three == <<"llama3.1:8b", "llama3:8b", "llama2:7b">>

\* the list `models` of _call_ollama_api
models == <<"llama3.1:8b", "llama3:8b", "llama2:7b", "mistral:7b">>

max_retries == 3
base_delay == 1

\* random.uniform(0, 1), in milliseconds
Jitters == {0, 500, 999}

\* the responses the backends are tried with
BackendResponses ==
    {[text |-> w, doc |-> d] :
        w \in {Plain, JsonFenced},
        d \in {Doc(CareerDoc("a", sa, Items(3), Items(3)),
                   CareerDoc("b", sb, Items(3), Items(3)), Items(2)) :
                 sa \in {PyStr(Tier_low), PyStr(<<"H","i","g","h">>),
                         PyStr(<<"$","8","5",",","0","0","0">>)},
                 sb \in {PyStr(<<"H","I","G","H">>), PyStr(Tier_medium),
                         PyStr(<<"a","b","o","v","e"," ","a","v","e","r","a","g","e">>)}}
              \cup {OmitTop("decision_guide"), OmitCareer("career_b", "skills"),
                    With(GoodDoc, "decision_guide", Items(3)),
                    With(GoodDoc, "career_a", With(GoodDoc.v.career_a, "pros", Items(2))),
                    Items(3)}}
    \cup {[text |-> x, doc |-> PyNone] : x \in NoDocTexts}

Outcome(kind, status, response) ==
    [kind |-> kind, status |-> status, response |-> response]
ProbeOutcomes ==
    {Outcome("raise", 0, NoResponse), Outcome("timeout", 0, NoResponse),
     Outcome("http", 200, NoResponse), Outcome("http", 404, NoResponse),
     Outcome("http", 500, NoResponse)}
GenerateOutcomes ==
    {Outcome("raise", 0, NoResponse), Outcome("timeout", 0, NoResponse),
     Outcome("http", 404, NoResponse), Outcome("http", 500, NoResponse)}
    \cup {Outcome("http", 200, r) : r \in BackendResponses}
ChatOutcomes ==
    {Outcome("raise", 0, NoResponse), Outcome("timeout", 0, NoResponse)}
    \cup {Outcome("http", 200, r) : r \in BackendResponses}

\* a probe that takes any answer for a running server
IsOllamaAvailableAnyAnswer(requests_available, o) ==
    requests_available /\ o.kind = "http"

\* _is_ollama_available, given how the GET ends
_is_ollama_available(requests_available, o) ==
    IF ~requests_available THEN FALSE
    ELSE IF o.kind # "http" THEN FALSE
    ELSE o.status = 200

\* line 53: OPENAI_AVAILABLE and os.getenv("OPENAI_API_KEY")
OpenAIGate(e) == e.openai /\ Truthy(e.key)

\* lines 92-115: one iteration of the loop of _call_ollama_api, given how the
\* POST ends: the parsed result, or the exception the except clause swallows,
\* or None when the status is not 200 and the loop simply goes on
OllamaModel(o) ==
    IF o.kind # "http" THEN Raise("RequestException", o.kind, "post", <<>>)
    ELSE IF o.status # 200 THEN PyNone
    ELSE _parse_ai_response(o.response)

\* lines 126-144: the try block of one attempt of _call_openai_api
OpenAIAttempt(o) ==
    IF o.kind # "http" THEN Raise("APIError", o.kind, "create", <<>>)
    ELSE _parse_ai_response(o.response)

\* a response that decodes to an object carrying a salary outside the three tiers
OffTier(response) ==
    LET data == json_loads(StripFences(response.text), response.doc)
    IN  /\ ~IsRaise(data) /\ data.t = "dict"
        /\ \E c \in {"career_a", "career_b"} :
              /\ c \in DOMAIN data.v /\ data.v[c].t = "dict"
              /\ "salary" \in DOMAIN data.v[c].v
              /\ \/ data.v[c].v.salary.t # "str"
                 \/ Lower(data.v[c].v.salary.v) \notin Tiers

Entry(what, n, ok) == [what |-> what, n |-> n, ok |-> ok]

\* `continue` of the loop of run_referee; after the last provider the loop ends
\* and line 66 returns _get_mock_comparison(career_a, career_b), unguarded
Continue ==
    IF provider_idx < Len(providers)
    THEN /\ provider_idx' = provider_idx + 1
         /\ pc' = "loop"
         /\ ret' = ret
         /\ source' = source
    ELSE /\ provider_idx' = provider_idx
         /\ pc' = "done"
         /\ ret' = _get_mock_comparison(call.arg[1], call.arg[2])
         /\ source' = [provider |-> "fallback", response |-> NoResponse]

\* lines 61-63: the except clause of the loop caught `e` raised by `provider`
Except(provider, e) == caught' = Append(caught, [provider |-> provider, error |-> e])

\* lines 51-52, 55-56, 59-60: result = provider_func(...) returned `result`;
\* return _standardize_salary_format(result), or the except clause and continue
Return(provider, result, response) ==
    \E final \in {_standardize_salary_format(result)} :
        /\ norm_arg' = result
        /\ IF IsRaise(final) THEN Continue /\ Except(provider, final)
           ELSE /\ caught' = caught
                /\ ret' = final
                /\ pc' = "done"
                /\ provider_idx' = provider_idx
                /\ source' = [provider |-> provider, response |-> response]

\* line 49: the ollama branch of the loop, up to the call of the adapter
TryOllama ==
    /\ call.op = "run_referee" /\ pc = "loop"
    /\ providers[provider_idx] = "ollama"
    /\ \E o \in ProbeOutcomes :
          /\ log' = IF env.requests THEN Append(log, Entry("probe", 0, FALSE)) ELSE log
          /\ probe' = IF ~env.requests THEN "not sent"
                      ELSE IF o.kind = "http" THEN ToString(o.status) ELSE o.kind
          /\ IF _is_ollama_available(env.requests, o)
             THEN /\ pc' = "ollama" /\ model_idx' = 1
                  /\ UNCHANGED <<provider_idx, ret, source>>
             ELSE Continue /\ UNCHANGED model_idx
    /\ UNCHANGED <<call, env, attempt, norm_arg, rejected, caught>>
    /\ UNCHANGED AppVars

\* line 117
AllModelsFailed ==
    Raise("Exception", "All Ollama models failed", "_call_ollama_api", <<>>)

\* lines 83-117: one model of _call_ollama_api; a parsed result returns through
\* run_referee, and after the last model the adapter raises into run_referee
OllamaGenerate ==
    /\ call.op = "run_referee" /\ pc = "ollama"
    /\ IF ~env.requests
       THEN /\ Continue
            /\ Except("ollama", Raise("Exception", "requests library not available",
                                      "_call_ollama_api", <<>>))
            /\ UNCHANGED <<model_idx, log, norm_arg, rejected>>
       ELSE \E o \in GenerateOutcomes :
              \E r \in {OllamaModel(o)} :
                  /\ log' = Append(log, Entry("generate", model_idx,
                                              r.t = "ComparisonResult"))
                  /\ rejected' = (rejected \/ (o.status = 200 /\ OffTier(o.response)))
                  /\ IF r.t = "ComparisonResult"
                     THEN Return("ollama", r, o.response) /\ UNCHANGED model_idx
                     ELSE IF model_idx < Len(models)
                     THEN /\ model_idx' = model_idx + 1
                          /\ UNCHANGED <<pc, provider_idx, ret, source, norm_arg,
                                         caught>>
                     ELSE /\ Continue
                          /\ Except("ollama", AllModelsFailed)
                          /\ UNCHANGED <<model_idx, norm_arg>>
    /\ UNCHANGED <<call, env, attempt, probe>>
    /\ UNCHANGED AppVars

\* line 53: the openai branch of the loop, up to the call of the adapter
TryOpenAI ==
    /\ call.op = "run_referee" /\ pc = "loop"
    /\ providers[provider_idx] = "openai"
    /\ IF OpenAIGate(env)
       THEN /\ pc' = "openai" /\ attempt' = 0
            /\ UNCHANGED <<provider_idx, ret, source>>
       ELSE Continue /\ UNCHANGED attempt
    /\ UNCHANGED <<call, env, model_idx, log, probe, norm_arg, rejected, caught>>
    /\ UNCHANGED AppVars

\* a slip: the retry limit is compared one too high
LastAttemptOffByOne(n) == n = max_retries

\* line 145: if attempt == max_retries - 1
LastAttempt(n) == n = max_retries - 1

\* lines 125-146: one attempt of _call_openai_api; the last failure is raised
\* into run_referee
OpenAIChat ==
    /\ call.op = "run_referee" /\ pc = "openai"
    /\ \E o \in ChatOutcomes :
          \E r \in {OpenAIAttempt(o)} :
              /\ log' = Append(log, Entry("chat", attempt, r.t = "ComparisonResult"))
              /\ rejected' = (rejected \/ (o.status = 200 /\ OffTier(o.response)))
              /\ IF r.t = "ComparisonResult"
                 THEN Return("openai", r, o.response)
                 ELSE IF LastAttempt(attempt)
                 THEN Continue /\ Except("openai", r) /\ UNCHANGED norm_arg
                 ELSE /\ pc' = "sleep"
                      /\ UNCHANGED <<provider_idx, ret, source, norm_arg, caught>>
    /\ UNCHANGED <<call, env, model_idx, attempt, probe>>
    /\ UNCHANGED AppVars

\* lines 148-149: the backoff sleep, in milliseconds, then the next attempt
OpenAISleep ==
    /\ call.op = "run_referee" /\ pc = "sleep"
    /\ \E jitter \in Jitters :
          log' = Append(log, Entry("sleep",
                                   base_delay * 1000 * (2 ^ attempt) + jitter, FALSE))
    /\ attempt' = attempt + 1
    /\ pc' = "openai"
    /\ UNCHANGED <<call, env, provider_idx, model_idx, ret, probe, source,
                   norm_arg, rejected, caught>>
    /\ UNCHANGED AppVars

\* lines 57-60: the mock branch of the loop
TryMock ==
    /\ call.op = "run_referee" /\ pc = "loop"
    /\ providers[provider_idx] = "mock"
    /\ \E r \in {_get_mock_comparison(call.arg[1], call.arg[2])} :
           /\ log' = Append(log, Entry("mock", 0, r.t = "ComparisonResult"))
           /\ IF r.t = "ComparisonResult"
              THEN Return("mock", r, NoResponse)
              ELSE Continue /\ Except("mock", r) /\ UNCHANGED norm_arg
    /\ UNCHANGED <<call, env, model_idx, attempt, probe, rejected>>
    /\ UNCHANGED AppVars

\* a call of run_referee, in an environment with or without the requests and
\* openai libraries and with OPENAI_API_KEY unset, empty or set
InitReferee ==
    /\ call \in {[op |-> "run_referee", arg |-> <<a, b>>] :
                    a \in CareerNames \ {<<>>}, b \in CareerNames \ {<<>>}}
    /\ ret = Pending
    /\ pc = "loop"
    /\ env \in {[requests |-> r, openai |-> o, key |-> k] :
                   r \in BOOLEAN, o \in BOOLEAN,
                   k \in {PyNone, PyStr(<<>>), PyStr(<<"sk-1">>)}}
    /\ provider_idx = 1 /\ model_idx = 1 /\ attempt = 0
    /\ log = <<>> /\ probe = "none"
    /\ source = [provider |-> "none", response |-> NoResponse]
    /\ norm_arg = PyNone /\ rejected = FALSE /\ caught = <<>>
    /\ AppOff

(***************************************************************************)
(* src/models.py, src/ui.py, src/app.py: the Streamlit application.        *)
(*                                                                         *)
(* Streamlit runs main() from the top on the first load, after st.rerun()  *)
(* and on every widget event (a form submission, a button press, a rerun   *)
(* asked for by the user); st.session_state is what survives between runs. *)
(* A script run that reaches run_referee goes on with the steps of         *)
(* run_referee above and resumes at line 54 of app.py when it returned.    *)
(***************************************************************************)
MaxCareerLen == 100
MaxNameLen == 50

\* a slip: the length limit of a career is not checked
validate_career_input_NoLimit(career_input) ==
    IF career_input.t # "str" THEN FALSE
    ELSE IF career_input.v = <<>> \/ Strip(career_input.v) = <<>> THEN FALSE
    ELSE TRUE

\* validate_career_input
validate_career_input(career_input) ==
    IF career_input.t # "str" THEN FALSE
    ELSE IF career_input.v = <<>> \/ Strip(career_input.v) = <<>> THEN FALSE
    ELSE IF Len(Strip(career_input.v)) > MaxCareerLen THEN FALSE
    ELSE TRUE

\* validate_user_name
validate_user_name(name) ==
    IF name.t # "str" THEN FALSE
    ELSE IF name.v = <<>> \/ Strip(name.v) = <<>> THEN FALSE
    ELSE IF Len(Strip(name.v)) > MaxNameLen THEN FALSE
    ELSE TRUE

\* render_input_page, lines 58-71: the errors of a submitted form
FormErrors(f) ==
    (IF ~validate_user_name(f.user_name)
     THEN {"Please enter a valid name"} ELSE {})
    \cup (IF ~validate_career_input(f.career_a)
          THEN {"Please enter a valid first career option"} ELSE {})
    \cup (IF ~validate_career_input(f.career_b)
          THEN {"Please enter a valid second career option"} ELSE {})
    \cup (IF Lower(Strip(f.career_a.v)) = Lower(Strip(f.career_b.v))
          THEN {"Please enter two different career options"} ELSE {})

\* render_input_page: None when the form was not submitted or has errors,
\* otherwise the three trimmed texts
render_input_page(f) ==
    IF f = NoForm \/ FormErrors(f) # {} THEN PyNone
    ELSE [t |-> "tuple",
          v |-> <<Strip(f.user_name.v), Strip(f.career_a.v), Strip(f.career_b.v)>>]

\* st.session_state[k] = x, and st.session_state.pop(k, None) for each k in K
Put(ss, k, x) == [y \in (DOMAIN ss) \cup {k} |-> IF y = k THEN x ELSE ss[y]]
Pop(ss, K) == [y \in (DOMAIN ss) \ K |-> ss[y]]

\* main, lines 24-25
InitPage(ss) == IF "page" \in DOMAIN ss THEN ss ELSE Put(ss, "page", "input")

required_keys == {"user_name", "career_a", "career_b", "comparison_data"}

Rendered(page, errors) == [page |-> page, errors |-> errors]

\* the local variables of run_referee before its first statement
FreshFrame ==
    /\ provider_idx' = 1 /\ model_idx' = 1 /\ attempt' = 0
    /\ log' = <<>> /\ probe' = "none"
    /\ source' = [provider |-> "none", response |-> NoResponse]
    /\ norm_arg' = PyNone /\ rejected' = FALSE /\ caught' = <<>>

MainCall == [op |-> "main", arg |-> <<>>]

\* one run of main() without a widget event (app.py 24-35, 38-41, 61-77)
RunScript ==
    LET ss == InitPage(session)
    IN  IF ss["page"] = "input"
        THEN /\ session' = ss
             /\ screen' = Rendered("input", {})
             /\ pc' = "wait"
        ELSE IF ss["page"] = "comparison" /\ ~(required_keys \subseteq DOMAIN ss)
        THEN /\ session' = Put(ss, "page", "input")
             /\ screen' = Rendered("none", {})
             /\ pc' = "rerun"
        ELSE /\ session' = ss
             /\ screen' = Rendered(IF ss["page"] = "comparison"
                                   THEN "comparison" ELSE "none", {})
             /\ pc' = "wait"

\* the first load of the page, and the run that follows st.rerun()
Load ==
    /\ call.op = "main" /\ pc = "rerun"
    /\ RunScript
    /\ submitted' = NoForm
    /\ UNCHANGED <<call, ret, env, provider_idx, model_idx, attempt, log, probe,
                   source, norm_arg, rejected, caught>>

\* the user asks for a rerun while a page is shown
Rerun ==
    /\ call.op = "main" /\ pc = "wait"
    /\ RunScript
    /\ submitted' = NoForm
    /\ UNCHANGED <<call, ret, env, provider_idx, model_idx, attempt, log, probe,
                   source, norm_arg, rejected, caught>>

\* texts typed into the form: blank or padded short texts in every combination,
\* and texts at and over the length limits together with short ones
Rep(c, n) == [i \in 1..n |-> c]
Ann == <<" ","A","n","n"," ">>
Nurse == <<"N","u","r","s","e">>
Teacher == <<"T","e","a","c","h","e","r">>
UserNames == {<<" ", " ">>, Ann}
CareerInputs == {<<>>, Nurse, <<" ","n","u","r","s","e"," ">>, Teacher}
LongName == <<" ">> \o Rep("n", MaxNameLen) \o <<" ">>
TooLongName == Rep("n", MaxNameLen + 1)
LongCareer == <<" ">> \o Rep("c", MaxCareerLen)
TooLongCareer == Rep("c", MaxCareerLen + 1)
Form(n, a, b) == [user_name |-> PyStr(n), career_a |-> PyStr(a), career_b |-> PyStr(b)]
Forms ==
    {Form(n, a, b) : n \in UserNames, a \in CareerInputs, b \in CareerInputs}
    \cup {Form(n, Nurse, Teacher) : n \in {LongName, TooLongName}}
    \cup {Form(Ann, a, Nurse) : a \in {LongCareer, TooLongCareer}}
    \cup {Form(Ann, Nurse, b) : b \in {LongCareer, TooLongCareer}}
    \cup {Form(Ann, LongCareer, LongCareer)}

\* the user submits the form: main runs, render_input_page validates, and
\* render_input_page_handler (app.py 40-53) stores the inputs and calls
\* run_referee, or the errors are shown
Submit ==
    /\ call.op = "main" /\ pc = "wait" /\ screen.page = "input"
    /\ \E f \in Forms :
          LET ss == InitPage(session)
              result == render_input_page(f)
          IN  /\ submitted' = f
              /\ IF result = PyNone
                 THEN /\ session' = ss
                      /\ screen' = Rendered("input", FormErrors(f))
                      /\ UNCHANGED <<call, ret, pc, provider_idx, model_idx,
                                     attempt, log, probe, source, norm_arg,
                                     rejected, caught>>
                 ELSE /\ session' = Put(Put(Put(ss, "user_name", result.v[1]),
                                            "career_a", result.v[2]),
                                        "career_b", result.v[3])
                      /\ screen' = Rendered("input", {})
                      /\ call' = [op |-> "run_referee",
                                  arg |-> <<result.v[2], result.v[3]>>]
                      /\ ret' = Pending
                      /\ pc' = "loop"
                      /\ FreshFrame
    /\ UNCHANGED env

\* a slip: the result is not stored before the page changes
StoreNothing(ss, comparison_data) == Put(ss, "page", "comparison")

\* app.py 54-57: the result is stored and the page set to comparison
Store(ss, comparison_data) ==
    Put(Put(ss, "comparison_data", comparison_data), "page", "comparison")

\* run_referee returned into render_input_page_handler: lines 54-58
StoreResult ==
    /\ call.op = "run_referee" /\ pc = "done" /\ screen.page # "off"
    /\ session' = Store(session, ret)
    /\ call' = MainCall
    /\ ret' = Pending
    /\ pc' = "rerun"
    /\ FreshFrame
    /\ UNCHANGED <<env, screen, submitted>>

\* a slip: the stored result survives the button
BackKeepsResult(ss) ==
    Pop(Put(ss, "page", "input"), {"user_name", "career_a", "career_b"})

\* ui.py 159-165: what "Compare Different Careers" does to the session
Back(ss) == Pop(Put(ss, "page", "input"), required_keys)

\* the user presses "Compare Different Careers": main runs, the comparison
\* page is rendered again and the button branch resets the session
PressBack ==
    /\ call.op = "main" /\ pc = "wait" /\ screen.page = "comparison"
    /\ LET ss == InitPage(session)
       IN  IF ss["page"] = "comparison" /\ required_keys \subseteq DOMAIN ss
           THEN /\ session' = Back(ss)
                /\ screen' = Rendered("comparison", {})
                /\ pc' = "rerun"
           ELSE RunScript
    /\ submitted' = NoForm
    /\ UNCHANGED <<call, ret, env, provider_idx, model_idx, attempt, log, probe,
                   source, norm_arg, rejected, caught>>

\* the environments the application is run in
AppEnvs ==
    {[requests |-> FALSE, openai |-> FALSE, key |-> PyNone],
     [requests |-> FALSE, openai |-> TRUE, key |-> PyStr(<<"sk-1">>)],
     [requests |-> TRUE, openai |-> FALSE, key |-> PyNone]}

\* a browser session opens the application
InitApp ==
    /\ call = MainCall
    /\ ret = Pending
    /\ pc = "rerun"
    /\ env \in AppEnvs
    /\ provider_idx = 1 /\ model_idx = 1 /\ attempt = 0
    /\ log = <<>> /\ probe = "none"
    /\ source = [provider |-> "none", response |-> NoResponse]
    /\ norm_arg = PyNone /\ rejected = FALSE /\ caught = <<>>
    /\ session = EmptySession
    /\ screen = Rendered("none", {})
    /\ submitted = NoForm

Init == InitPure \/ InitReferee \/ InitApp

Next ==
    \/ Do_parse_ai_response
    \/ Do_standardize_salary
    \/ Do_CareerInfo
    \/ Do_ComparisonResult
    \/ Do_from_dict
    \/ Do_get_mock_comparison
    \/ Do_standardize_salary_format
    \/ Do_to_dict
    \/ TryOllama
    \/ OllamaGenerate
    \/ TryOpenAI
    \/ OpenAIChat
    \/ OpenAISleep
    \/ TryMock
    \/ Load
    \/ Rerun
    \/ Submit
    \/ StoreResult
    \/ PressBack

Spec == Init /\ [][Next]_vars

\* the steps of run_referee and the steps of the application around it
RefereeStep ==
    \/ TryOllama
    \/ OllamaGenerate
    \/ TryOpenAI
    \/ OpenAIChat
    \/ OpenAISleep
    \/ TryMock
AppStep ==
    \/ Load
    \/ Rerun
    \/ Submit
    \/ StoreResult
    \/ PressBack

\* run_referee is under way, and the variables that hold its position
Running == call.op = "run_referee" /\ pc # "done"
position == <<pc, provider_idx, model_idx, attempt>>

\* run_referee moves on: every step of it changes the position, and it can
\* take one whenever it is under way
Advance ==
    /\ Running
    /\ \E p \in {"loop", "ollama", "openai", "sleep", "done"},
          i \in 1..Len(providers), m \in 1..Len(models), a \in 0..max_retries :
          pc' = p /\ provider_idx' = i /\ model_idx' = m /\ attempt' = a

\* the calls of run_referee, on its own and from the application, where a step
\* of run_referee that is under way ends: every request made in one returns or
\* times out (timeout=2, 60 and 30 seconds) and every sleep is finite
FairSpec ==
    /\ InitReferee \/ InitApp
    /\ [][RefereeStep \/ AppStep]_vars
    /\ WF_position(Advance)

(***************************************************************************)
(* Properties.                                                             *)
(***************************************************************************)
RefereeDone == call.op = "run_referee" /\ pc = "done"
Career_a == call.arg[1]
Career_b == call.arg[2]
Logged(what) == {i \in DOMAIN log : log[i].what = what}
TierValues == {PyStr(t) : t \in Tiers}

\* C1: run_referee never raises: whatever the probe and every local or hosted
\* request do, the call ends by returning a ComparisonResult.
C1_NeverRaises ==
    call.op = "run_referee" =>
        /\ ~IsRaise(ret)
        /\ pc = "done" => ret.t = "ComparisonResult"

\* C1 witness: a call returned although every local model and every hosted
\* attempt had failed.
C1_Witness ==
    /\ RefereeDone /\ ret.t = "ComparisonResult"
    /\ Cardinality(Logged("generate")) = Len(models)
    /\ Cardinality(Logged("chat")) = max_retries

Rank(what) ==
    CASE what \in {"probe", "generate"} -> 1
      [] what \in {"chat", "sleep"} -> 2
      [] what = "mock" -> 3

\* the local provider was skipped, or every model of it was tried and failed
LocalOver ==
    \/ probe # "200" /\ Logged("generate") = {}
    \/ /\ Cardinality(Logged("generate")) = Len(models)
       /\ \A i \in Logged("generate") : ~log[i].ok

\* the hosted provider was skipped, or every attempt of it was made and failed
HostedOver ==
    \/ ~(env.openai /\ Truthy(env.key)) /\ Logged("chat") = {}
    \/ /\ Cardinality(Logged("chat")) = max_retries
       /\ \A i \in Logged("chat") : ~log[i].ok

\* C2: within one call the providers are attempted one after the other in the
\* order local, hosted, mock: a hosted request is sent only once the local
\* provider was skipped or failed, the mock is built only once both were, and
\* nothing is invoked after a provider returned a result.
C2_SequentialOrder ==
    call.op = "run_referee" =>
        /\ \A i, j \in DOMAIN log : i < j => Rank(log[i].what) <= Rank(log[j].what)
        /\ \A i \in DOMAIN log : log[i].ok => i = Len(log)
        /\ Logged("chat") # {} => LocalOver
        /\ Logged("mock") # {} => LocalOver /\ HostedOver

\* C2 witness: all three providers were invoked in one call.
C2_Witness ==
    /\ RefereeDone
    /\ Logged("generate") # {} /\ Logged("chat") # {} /\ Logged("mock") # {}

\* C3: a provider whose precondition is not met is not called: generation
\* requests are sent only after a probe answered 200, hosted requests only with
\* the client library present and a non-empty credential.
C3_SkippedNotCalled ==
    call.op = "run_referee" =>
        /\ Logged("generate") # {} => probe = "200"
        /\ \A j \in Logged("generate") : \E i \in Logged("probe") : i < j
        /\ Logged("chat") # {} =>
              env.openai /\ env.key.t = "str" /\ env.key.v # <<>>

\* C3 witness: a call that ended with the probe answered 500 and the credential
\* set to the empty string, both real providers skipped.
C3_Witness ==
    /\ RefereeDone /\ probe = "500" /\ env.openai /\ env.key = PyStr(<<>>)
    /\ Logged("generate") = {} /\ Logged("chat") = {}

\* what the claim says of the mock-derived result for (a, b)
IsMockResult(r, a, b) ==
    /\ r.t = "ComparisonResult"
    /\ Contains(r.v.career_a.v.overview.v, a)
    /\ Contains(r.v.career_b.v.overview.v, b)
    /\ r.v.career_a.v.salary = PyStr(Tier_medium)
    /\ r.v.career_b.v.salary = PyStr(Tier_medium)
    /\ Len(r.v.decision_guide.v) = 2
    /\ \A c \in {r.v.career_a, r.v.career_b} :
          Len(c.v.pros.v) = 3 /\ Len(c.v.cons.v) = 3

\* C4: with the probe failed and the credential absent, and whenever both real
\* providers were attempted and failed, run_referee(a, b) returns the mock
\* result for (a, b): both names verbatim, salaries medium, lists of 2, 3, 3.
C4_MockFallback ==
    (/\ RefereeDone
     /\ \/ probe # "200" /\ ~Truthy(env.key)
        \/ /\ Logged("generate") # {} /\ Logged("chat") # {}
           /\ \A i \in Logged("generate") \cup Logged("chat") : ~log[i].ok)
    => IsMockResult(ret, Career_a, Career_b)

\* C4 witness: the probe timed out, no credential is set, two different names.
C4_Witness ==
    /\ RefereeDone /\ probe = "timeout" /\ env.key = PyNone
    /\ Career_a # Career_b /\ source.provider = "mock"

\* C5: every result run_referee returns went through the salary normalizer
\* last, so both salaries are one of the lower-case tiers low, medium, high.
C5_CanonicalSalary ==
    RefereeDone =>
        /\ ret.t = "ComparisonResult"
        /\ ret.v.career_a.v.salary \in TierValues
        /\ ret.v.career_b.v.salary \in TierValues
        /\ norm_arg # PyNone /\ ret = _standardize_salary_format(norm_arg)

\* C5 witness: a hosted response carrying "High" and "HIGH" came back as high.
C5_Witness ==
    /\ RefereeDone /\ source.provider = "openai"
    /\ norm_arg.v.career_a.v.salary = PyStr(<<"H","i","g","h">>)
    /\ norm_arg.v.career_b.v.salary = PyStr(<<"H","I","G","H">>)
    /\ ret.v.career_a.v.salary = PyStr(Tier_high)
    /\ ret.v.career_b.v.salary = PyStr(Tier_high)

\* C6: a response whose career_a or career_b salary is not low, medium or high
\* (any letter case) is rejected by _parse_ai_response with an error; it never
\* reaches the normalizer and the returned result is never parsed from it.
C6_OffTierRejected ==
    /\ (call.op = "_parse_ai_response" /\ ret # Pending /\ OffTier(call.arg))
          => IsRaise(ret) /\ ret.v.type = "ValueError"
    /\ call.op = "run_referee" =>
          /\ source.provider \in {"ollama", "openai"} => ~OffTier(source.response)
          /\ norm_arg # PyNone =>
                \A c \in {norm_arg.v.career_a, norm_arg.v.career_b} :
                    c.v.salary.t = "str" /\ Lower(c.v.salary.v) \in Tiers

\* C6 witness: an off-tier response was received and rejected, and the result
\* returned was parsed from a later hosted response.
C6_Witness ==
    /\ RefereeDone /\ rejected /\ source.provider = "openai"
    /\ Logged("generate") # {}

\* the wrappings under which a payload is otherwise valid
CleanWrappers == {Plain, JsonFenced, BareFenced}

\* C7: leaving out any one of the 3 top-level keys or of the 6 keys of either
\* career from an otherwise valid payload makes _parse_ai_response raise an
\* error that names that key; no result is produced.
C7_MissingKeyNamed ==
    (call.op = "_parse_ai_response" /\ ret # Pending /\ call.arg.text \in CleanWrappers)
    => /\ \A k \in Range(TopFields) :
            call.arg.doc = OmitTop(k) =>
                /\ IsRaise(ret) /\ ret.v.type = "ValueError"
                /\ ret.v.kind = "missing_fields" /\ ret.v.where = "top"
                /\ k \in Range(ret.v.names)
       /\ \A c \in {"career_a", "career_b"} : \A k \in Range(CareerFields) :
            call.arg.doc = OmitCareer(c, k) =>
                /\ IsRaise(ret) /\ ret.v.type = "ValueError"
                /\ ret.v.kind = "missing_fields" /\ ret.v.where = c
                /\ k \in Range(ret.v.names)

\* C7 witness: the payload without career_b.salary was rejected naming salary.
C7_Witness ==
    /\ call.op = "_parse_ai_response" /\ call.arg.text = Plain
    /\ call.arg.doc = OmitCareer("career_b", "salary")
    /\ IsRaise(ret) /\ ret.v.names = <<"salary">>

\* the response with the same document and no fence
Unwrapped(response) == [text |-> Plain, doc |-> response.doc]

\* C8 as stated: a valid payload in a fence with any label parses to the same
\* result as the payload alone.
C8_AnyLabel ==
    (/\ call.op = "_parse_ai_response" /\ ret # Pending
     /\ \E l \in Labels : call.arg.text = LabelFenced(l)
     /\ _parse_ai_response(Unwrapped(call.arg)).t = "ComparisonResult")
    => ret = _parse_ai_response(Unwrapped(call.arg))

\* C8 amended: a payload in a fence labelled json, or in a bare fence, parses to
\* the same result as the payload alone; one leading and one trailing marker
\* are removed, so a doubly fenced payload is rejected as invalid JSON.
C8_JsonLabel ==
    (call.op = "_parse_ai_response" /\ ret # Pending)
    => /\ call.arg.text \in {JsonFenced, BareFenced, FENCE_JSON \o <<JSON>> \o FENCE,
                             <<" ", "\n">> \o JsonFenced \o <<"\n">>}
            => ret = _parse_ai_response(Unwrapped(call.arg))
       /\ call.arg.text \in {FENCE \o BareFenced \o FENCE, FENCE \o JsonFenced \o FENCE}
            => ret = Raise("ValueError", "invalid_json", "response", <<>>)
       /\ (\E l \in Labels \ {<<"j","s","o","n">>} : call.arg.text = LabelFenced(l))
            => ret = Raise("ValueError", "invalid_json", "response", <<>>)

\* C8 witness: a payload in a json fence was parsed to a result.
C8_Witness ==
    /\ call.op = "_parse_ai_response" /\ call.arg.text = JsonFenced
    /\ ret.t = "ComparisonResult"

IsListOf(x, n) == x.t = "list" /\ Len(x.v) = n

\* C9: CareerInfo cannot be constructed unless pros and cons are lists of
\* exactly 3, ComparisonResult unless decision_guide is a list of at least 2;
\* so every ComparisonResult any operation produces has that shape.
C9_Shape ==
    /\ (call.op = "CareerInfo" /\ ret # Pending) =>
          IF IsListOf(call.arg.pros, 3) /\ IsListOf(call.arg.cons, 3)
          THEN ret.t = "CareerInfo" ELSE IsRaise(ret) /\ ret.v.type = "ValueError"
    /\ (call.op = "ComparisonResult" /\ ret # Pending) =>
          IF call.arg.t = "list" /\ Len(call.arg.v) >= 2
          THEN ret.t = "ComparisonResult" ELSE IsRaise(ret) /\ ret.v.type = "ValueError"
    /\ ret.t = "ComparisonResult" =>
          /\ \A c \in {ret.v.career_a, ret.v.career_b} :
                IsListOf(c.v.pros, 3) /\ IsListOf(c.v.cons, 3)
          /\ ret.v.decision_guide.t = "list" /\ Len(ret.v.decision_guide.v) >= 2

\* C9 witness: constructing a CareerInfo with four pros failed.
C9_Witness ==
    /\ call.op = "CareerInfo" /\ IsListOf(call.arg.pros, 4)
    /\ IsListOf(call.arg.cons, 3) /\ IsRaise(ret)

\* the tier the thresholds give a figure of k thousand
TierOfThousands(k) ==
    IF k * 1000 < 60000 THEN Tier_low
    ELSE IF k * 1000 < 80000 THEN Tier_medium
    ELSE Tier_high

\* C10: a salary text carrying the number N yields low when N < 60000, medium
\* when 60000 <= N < 80000 and high when 80000 <= N.
C10_NumericThresholds ==
    (call.op = "standardize_salary" /\ call.arg.fmt \in FigureFormats
     /\ ret # Pending)
    => ret = PyStr(TierOfThousands(call.arg.k))

\* the text standardize_salary matches its rules against: lower-cased, trimmed
Normal(raw) == IF raw.t = "str" THEN Strip(Lower(raw.v)) ELSE <<>>

\* C11: standardize_salary is total on texts and on no value at all, and
\* returns medium for an empty or missing input, the trimmed lower-cased input
\* when that is a tier (so a tier maps to itself), otherwise the tier of the
\* first matching group in the order low, high, medium, and medium when no
\* rule matches.
C11_DecisionProcedure ==
    (call.op = "standardize_salary" /\ ret # Pending) =>
        LET raw == call.arg.salary_str
            s == Normal(raw)
        IN  /\ ret \in TierValues
            /\ standardize_salary(ret) = ret
            /\ (raw = PyNone \/ raw = PyStr(<<>>)) => ret = PyStr(Tier_medium)
            /\ s \in Tiers => ret = PyStr(s)
            /\ s \notin Tiers =>
                  /\ Low1(s) \/ Low2(s) \/ Low3(s) => ret = PyStr(Tier_low)
                  /\ (/\ ~(Low1(s) \/ Low2(s) \/ Low3(s))
                      /\ High1(s) \/ High2(s) \/ High3(s) \/ High4(s) \/ High5(s))
                     => ret = PyStr(Tier_high)
                  /\ (/\ ~(Low1(s) \/ Low2(s) \/ Low3(s))
                      /\ ~(High1(s) \/ High2(s) \/ High3(s) \/ High4(s) \/ High5(s)))
                     => ret = PyStr(Tier_medium)

\* C11 witness: a description in words that matches a low rule and a high rule
\* came back as low.
C11_Witness ==
    /\ call.op = "standardize_salary" /\ call.arg.fmt = "text"
    /\ Low1(Normal(call.arg.salary_str)) /\ High1(Normal(call.arg.salary_str))
    /\ ret = PyStr(Tier_low)

\* C12: serializing a ComparisonResult with to_dict and rebuilding it with
\* from_dict succeeds and gives back an equal result: both careers' overview,
\* skills, salary, time_to_enter, pros and cons, and the decision_guide.
C12_RoundTrip ==
    (call.op = "to_dict" /\ ret # Pending) =>
        /\ ret.t = "ComparisonResult"
        /\ \A c \in {"career_a", "career_b"} :
              /\ ret.v[c].t = "CareerInfo"
              /\ \A f \in Range(CareerFields) : ret.v[c].v[f] = call.arg.v[c].v[f]
        /\ ret.v.decision_guide = call.arg.v.decision_guide
        /\ ret = call.arg

\* C12 witness: a result whose two careers differ and whose salaries are not
\* tiers was serialized and rebuilt.
C12_Witness ==
    /\ call.op = "to_dict" /\ ret.t = "ComparisonResult"
    /\ call.arg.v.career_a # call.arg.v.career_b
    /\ call.arg.v.career_a.v.salary \notin TierValues

\* the application is running (the other behaviours call one function directly)
AppOn == screen.page # "off"

\* what the claim asks of a submitted form, in its own words
Trimmed(x) == Strip(x.v)
PassesChecks(f) ==
    /\ Trimmed(f.user_name) # <<>> /\ Len(Trimmed(f.user_name)) <= 50
    /\ \A c \in {f.career_a, f.career_b} :
          Trimmed(c) # <<>> /\ Len(Trimmed(c)) <= 100
    /\ Lower(Trimmed(f.career_a)) # Lower(Trimmed(f.career_b))

\* C13: in the application run_referee runs only for a submitted form that
\* passed every check (name and careers non-empty after trimming, name at most
\* 50 and careers at most 100 characters, careers different regardless of case)
\* and gets the two trimmed careers; a submitted form that fails a check leaves
\* errors on the input page, starts no call of run_referee and stores nothing.
C13_ValidatedFirst ==
    AppOn =>
        /\ call.op = "run_referee" =>
              /\ submitted # NoForm /\ PassesChecks(submitted)
              /\ call.arg = <<Trimmed(submitted.career_a), Trimmed(submitted.career_b)>>
              /\ screen.errors = {}
        /\ (submitted # NoForm /\ ~PassesChecks(submitted)) =>
              /\ call.op # "run_referee" /\ pc = "wait"
              /\ screen.page = "input" /\ screen.errors # {}
              /\ session["page"] = "input"
              /\ required_keys \cap DOMAIN session = {}

\* C13 witness: run_referee is under way for a form whose first career is 100
\* characters long behind a leading blank.
C13_Witness ==
    /\ AppOn /\ call.op = "run_referee" /\ Logged("mock") # {}
    /\ Len(submitted.career_a.v) = 101 /\ Len(call.arg[1]) = 100

\* a form failed only on its first career, one character over the limit
C13_WitnessRejected ==
    /\ AppOn /\ pc = "wait" /\ submitted # NoForm
    /\ Len(Trimmed(submitted.career_a)) = 101
    /\ screen.errors = {"Please enter a valid first career option"}

\* the exceptions run_referee caught from `provider`
CaughtFrom(provider) == {j \in DOMAIN caught : caught[j].provider = provider}

\* C14: one call of the hosted adapter sends at most 3 requests, numbered 0, 1,
\* 2; a failed request 0 is followed by a sleep of 1 to under 2 seconds and a
\* failed request 1 by one of 2 to under 3 seconds, each before the next
\* request; the third failure is followed by no sleep and its error reaches the
\* except clause of run_referee; a request that succeeds is the last one.
C14_HostedRetry ==
    call.op = "run_referee" =>
        LET chats == Logged("chat")
            sleeps == Logged("sleep")
        IN  /\ Cardinality(chats) <= 3 /\ Cardinality(sleeps) <= 2
            /\ \A i \in chats : log[i].n = Cardinality({j \in chats : j < i})
            /\ \A i \in sleeps : i > 1 /\ log[i - 1].what = "chat" /\ ~log[i - 1].ok
            /\ \A i \in chats :
                  IF log[i].ok
                  THEN i = Len(log) /\ pc = "done" /\ source.provider = "openai"
                  ELSE IF log[i].n \in {0, 1}
                  THEN IF i = Len(log) THEN pc = "sleep"
                       ELSE /\ log[i + 1].what = "sleep"
                            /\ log[i].n = 0 => 1000 <= log[i + 1].n /\ log[i + 1].n < 2000
                            /\ log[i].n = 1 => 2000 <= log[i + 1].n /\ log[i + 1].n < 3000
                            /\ i + 1 = Len(log) => pc = "openai" /\ attempt = log[i].n + 1
                  ELSE /\ i = Len(log) \/ log[i + 1].what = "mock"
                       /\ Cardinality(CaughtFrom("openai")) = 1
            /\ \A j \in CaughtFrom("openai") :
                  /\ \E i \in chats : log[i].n = 2 /\ ~log[i].ok
                  /\ IsRaise(caught[j].error)
                  /\ caught[j].error.v.type \in {"APIError", "ValueError"}

\* C14 witness: three failed requests with sleeps of 1.999 s and 2 s between
\* them, the last one a timeout that run_referee caught.
C14_Witness ==
    /\ RefereeDone /\ Cardinality(Logged("chat")) = 3
    /\ \E i, j \in Logged("sleep") : i < j /\ log[i].n = 1999 /\ log[j].n = 2000
    /\ \E j \in CaughtFrom("openai") : caught[j].error.v.kind = "timeout"

\* C15: the local adapter asks for the models of its list one at a time and in
\* order: request k + 1 is sent only after request k failed (it raised, was
\* answered with a status other than 200, or its text was rejected by the
\* parser); a request whose response parses ends the call with that result and
\* nothing is requested after it; after four failures the adapter raises and
\* run_referee moves on to the hosted provider.
C15_ModelOrder ==
    call.op = "run_referee" =>
        LET gens == Logged("generate")
        IN  /\ Cardinality(gens) <= 4
            /\ \A i \in gens :
                  /\ log[i].n = 1 + Cardinality({j \in gens : j < i})
                  /\ \A j \in gens : j < i => ~log[j].ok
                  /\ log[i].ok =>
                        /\ i = Len(log) /\ pc = "done"
                        /\ source.provider = "ollama"
                        /\ norm_arg = OllamaModel(Outcome("http", 200, source.response))
                  /\ (~log[i].ok /\ log[i].n < 4 /\ i = Len(log)) =>
                        pc = "ollama" /\ model_idx = log[i].n + 1
                  /\ (~log[i].ok /\ log[i].n = 4) =>
                        /\ \E j \in CaughtFrom("ollama") : caught[j].error = AllModelsFailed
                        /\ providers[provider_idx] # "ollama" \/ pc = "done"
                        /\ i < Len(log) => log[i + 1].what \in {"chat", "mock"}
            /\ (\E j \in CaughtFrom("ollama") : caught[j].error = AllModelsFailed)
                  => Cardinality(gens) = 4 /\ \A i \in gens : ~log[i].ok

\* C15 witness: the first two models failed and the third one's response was
\* parsed and returned.
C15_Witness ==
    /\ RefereeDone /\ source.provider = "ollama"
    /\ Cardinality(Logged("generate")) = 3
    /\ \E i \in Logged("generate") : log[i].n = 3 /\ log[i].ok

\* all four models failed and the hosted provider was asked next
C15_WitnessAllFailed ==
    /\ call.op = "run_referee" /\ Cardinality(Logged("generate")) = 4
    /\ \E j \in CaughtFrom("ollama") : caught[j].error = AllModelsFailed
    /\ Logged("chat") # {}

\* C16: every call of run_referee returns, after at most 1 probe, 4 local
\* generation requests, 3 hosted requests and 2 backoff sleeps; when neither
\* real provider returned a result the mock provider is reached and returns
\* one, and the return after the loop is never taken.
C16_Terminates ==
    /\ [](call.op = "run_referee" =>
            /\ Cardinality(Logged("probe")) <= 1
            /\ Cardinality(Logged("generate")) <= 4
            /\ Cardinality(Logged("chat")) <= 3
            /\ Cardinality(Logged("sleep")) <= 2
            /\ Cardinality(Logged("mock")) <= 1
            /\ source.provider # "fallback"
            /\ CaughtFrom("mock") = {}
            /\ pc = "done" =>
                  /\ ret.t = "ComparisonResult"
                  /\ source.provider \in {"ollama", "openai", "mock"}
                  /\ source.provider = "mock" <=> Logged("mock") # {})
    /\ (call.op = "run_referee") ~> (call.op = "run_referee" /\ pc = "done")

\* C16 witness: a call that returned after the most work there is: the probe,
\* four generation requests, three hosted requests, two sleeps and the mock.
C16_Witness ==
    /\ RefereeDone /\ source.provider = "mock"
    /\ Cardinality(Logged("probe")) = 1 /\ Cardinality(Logged("generate")) = 4
    /\ Cardinality(Logged("chat")) = 3 /\ Cardinality(Logged("sleep")) = 2
    /\ Len(log) = 11

\* every field of `after` but the two salaries equals that of `before`
SameButSalary(before, after) ==
    /\ after.t = "ComparisonResult"
    /\ \A c \in {"career_a", "career_b"} :
          /\ after.v[c].t = "CareerInfo"
          /\ \A f \in {"overview", "skills", "time_to_enter", "pros", "cons"} :
                after.v[c].v[f] = before.v[c].v[f]
    /\ after.v.decision_guide = before.v.decision_guide

\* C17: _standardize_salary_format changes nothing but the two salaries:
\* overview, skills, time_to_enter, pros and cons of both careers and the
\* decision_guide of what it returns equal the input's; and what run_referee
\* returns differs from the result the provider's response was parsed into in
\* the letter case of the two salaries at most.
C17_SalaryOnly ==
    /\ (call.op = "_standardize_salary_format" /\ ret # Pending) =>
          IF \A c \in {"career_a", "career_b"} :
                call.arg.v[c].v.salary.t \in {"str", "none"}
          THEN SameButSalary(call.arg, ret)
          ELSE IsRaise(ret)
    /\ RefereeDone =>
          /\ norm_arg # PyNone /\ SameButSalary(norm_arg, ret)
          /\ \A c \in {"career_a", "career_b"} :
                /\ norm_arg.v[c].v.salary.t = "str"
                /\ ret.v[c].v.salary = PyStr(Lower(norm_arg.v[c].v.salary.v))

\* C17 witness: a local response with the salaries "High" and "HIGH" was
\* returned with high twice and everything else as parsed.
C17_Witness ==
    /\ RefereeDone /\ source.provider = "ollama"
    /\ norm_arg.v.career_a.v.salary = PyStr(<<"H","i","g","h">>)
    /\ norm_arg.v.career_b.v.salary = PyStr(<<"H","I","G","H">>)
    /\ ret.v.career_a.v.salary = PyStr(Tier_high)
    /\ ret.v.career_b.v.salary = PyStr(Tier_high)
    /\ ret.v.career_a.v.overview = norm_arg.v.career_a.v.overview

\* the normalizer was called on its own with a mock result, whose pros and
\* cons differ
C17_WitnessPure ==
    /\ call.op = "_standardize_salary_format" /\ ret.t = "ComparisonResult"
    /\ call.arg.v.career_a.v.pros # call.arg.v.career_a.v.cons

\* the session holds page = p
PageIs(ss, p) == "page" \in DOMAIN ss /\ ss["page"] = p
FourKeys == {"user_name", "career_a", "career_b", "comparison_data"}

\* C18: in the application, over any submissions, reruns and presses of the
\* button: a script run renders the comparison screen only with user_name,
\* career_a, career_b and comparison_data in the session, and page is
\* "comparison" only with them there; page turns to "comparison" only in the
\* step that stores what run_referee returned; and pressing "Compare Different
\* Careers" removes the four keys and sets page to "input", so that the input
\* screen never shows with a stored result.
C18_SessionRouting ==
    /\ [](AppOn =>
            /\ PageIs(session, "comparison") =>
                  /\ FourKeys \subseteq DOMAIN session
                  /\ session["comparison_data"].t = "ComparisonResult"
            /\ (screen.page = "comparison" /\ pc = "wait") =>
                  PageIs(session, "comparison")
            /\ (screen.page = "input" /\ pc = "wait") =>
                  PageIs(session, "input") /\ FourKeys \cap DOMAIN session = {})
    /\ [][AppOn =>
            /\ (screen'.page = "comparison" /\ call.op = "main") =>
                  PageIs(session, "comparison") /\ FourKeys \subseteq DOMAIN session
            /\ (PageIs(session', "comparison") /\ ~PageIs(session, "comparison")) =>
                  /\ call.op = "run_referee" /\ pc = "done"
                  /\ ret.t = "ComparisonResult"
                  /\ session' = [k \in DOMAIN session \cup {"comparison_data"} |->
                                   IF k = "comparison_data" THEN ret
                                   ELSE IF k = "page" THEN "comparison"
                                   ELSE session[k]]
            /\ (pc = "wait" /\ screen.page = "comparison" /\ session' # session) =>
                  /\ DOMAIN session' = {"page"} /\ session'["page"] = "input"
                  /\ pc' = "rerun"]_vars

\* C18 witness: the button was pressed on a comparison screen: the run that
\* rendered it left only page = "input" in the session and asked for a rerun.
C18_Witness ==
    /\ AppOn /\ pc = "rerun" /\ screen.page = "comparison"
    /\ DOMAIN session = {"page"} /\ session["page"] = "input"

\* a comparison screen is on display with a result that came from a provider
C18_WitnessShown ==
    /\ AppOn /\ pc = "wait" /\ screen.page = "comparison"
    /\ session["comparison_data"].v.career_a.v.salary = PyStr(Tier_low)

====
